---- MODULE Spec2Model ----
(***************************************************************************)
(* domain-exporter: the paginated fetcher (SearchResidential), the         *)
(* aggregation into the domain_listing_count gauge vector, and the two     *)
(* drivers: the /listings handler (on-demand mode, src/unnamed/part_000)   *)
(* and the Prometheus collector (batch mode, src/domain_exporter.go).      *)
(***************************************************************************)
EXTENDS Integers, Sequences, FiniteSets, TLC

VARIABLES
    zeroData,      \* what the upstream holds for the all-zero search request
    pc,            \* per invocation: "idle", "next", "page", "done"
    mode,          \* per invocation: "none", "handler", "collect"
    matches,       \* Collect: the documents globbed from searches/*.json
    m,             \* Collect: index of the document being processed
    callerRsr,     \* the caller's ResidentialSearchRequest value
    rsr,           \* SearchResidential's parameter copy, per frame
    listings,      \* SearchResidential's accumulator, per frame
    ret,           \* what the last SearchResidential call returned
    reqs,          \* log of the page requests of the current/last call
    listingCount,  \* the GaugeVec of the invocation, per frame
    fed,           \* every record a successful SearchResidential returned
    emitted,       \* the metric family the invocation handed to the sink
    status         \* 0 while running, 200 metrics served, 500 error reply

vars == <<zeroData, pc, mode, matches, m, callerRsr, rsr, listings, ret, reqs,
          listingCount, fed, emitted, status>>

---------------------------------------------------------------------------
(* Bounds of the model *)

\* concurrent invocations (HTTP requests served at once)
NumInv == 2
\* documents in searches/ at one scrape
MaxDocs == 2
\* largest total of the enumerated small upstream result sets
MaxTotal == 3
\* binary fraction digits of the modelled float32 bedroom/bathroom values
FracBits == 5

(* Program constants *)

\* rsr.PageSize = 200
PageSize == 200
\* for len(listings) < 1000
ResultCap == 1000

Inv == 1..NumInv
Denom == 2^FracBits

Min(a, b) == IF a < b THEN a ELSE b

---------------------------------------------------------------------------
(* Listing records.  A SearchResult is held as its index in Catalogue; the *)
(* PropertyDetails of result r are Catalogue[r].  Bedrooms and bathrooms   *)
(* are float32 values n/Denom, held as the numerator n.                    *)

F32(n32) == (n32 * Denom) \div 32

Catalogue ==
    << [State |-> "NSW", PropertyType |-> "House", Suburb |-> "Pyrmont",
        Postcode |-> "2009", Bedrooms |-> F32(96), Bathrooms |-> F32(80),
        CarSpaces |-> 1],
       [State |-> "NSW", PropertyType |-> "ApartmentUnitFlat", Suburb |-> "Pyrmont",
        Postcode |-> "2009", Bedrooms |-> F32(64), Bathrooms |-> F32(32),
        CarSpaces |-> 0],
       [State |-> "NSW", PropertyType |-> "House", Suburb |-> "Pyrmont",
        Postcode |-> "2009", Bedrooms |-> F32(96), Bathrooms |-> F32(81),
        CarSpaces |-> 1],
       [State |-> "NSW", PropertyType |-> "House", Suburb |-> "Glebe",
        Postcode |-> "2037", Bedrooms |-> F32(72), Bathrooms |-> F32(56),
        CarSpaces |-> 12],
       [State |-> "", PropertyType |-> "", Suburb |-> "",
        Postcode |-> "", Bedrooms |-> 0, Bathrooms |-> 0,
        CarSpaces |-> 0],
       [State |-> "VIC", PropertyType |-> "House", Suburb |-> "Pyrmont",
        Postcode |-> "2009", Bedrooms |-> F32(96), Bathrooms |-> F32(80),
        CarSpaces |-> 1],
       [State |-> "NSW", PropertyType |-> "House", Suburb |-> "Glebe",
        Postcode |-> "2037", Bedrooms |-> F32(328), Bathrooms |-> F32(31),
        CarSpaces |-> -1] >>

PropertyDetails(r) == Catalogue[r]

---------------------------------------------------------------------------
(* fmt.Sprintf of the label values.  A formatted string is the sequence of *)
(* its characters.                                                         *)

DigitChar(d) == <<"0", "1", "2", "3", "4", "5", "6", "7", "8", "9">>[d + 1]

RECURSIVE Itoa(_)
Itoa(n) == IF n < 10 THEN <<DigitChar(n)>>
           ELSE Append(Itoa(n \div 10), DigitChar(n % 10))

\* fmt.Sprintf("%.0f", x): no decimal
SprintfF0(n) ==
    LET q == n \div Denom
        r == n % Denom
        up == (2 * r > Denom) \/ (2 * r = Denom /\ q % 2 = 1)
    IN  Itoa(IF up THEN q + 1 ELSE q)

\* fmt.Sprintf("%.1f", x) of the float32 x = n/Denom: the exact value rounded
\* to one decimal, ties to even
SprintfF1(n) ==
    LET q == (10 * n) \div Denom
        r == (10 * n) % Denom
        up == (2 * r > Denom) \/ (2 * r = Denom /\ q % 2 = 1)
        t == IF up THEN q + 1 ELSE q
    IN  Itoa(t \div 10) \o <<".", DigitChar(t % 10)>>

\* fmt.Sprintf("%v", c) of the int32 c
SprintfV(c) == IF c < 0 THEN <<"-">> \o Itoa(-c) ELSE Itoa(c)

\* the label values handed to WithLabelValues
LabelValues(r) ==
    LET pd == PropertyDetails(r)
    IN  << pd.PropertyType, pd.Suburb, pd.Postcode,
           SprintfF1(pd.Bedrooms), SprintfF1(pd.Bathrooms), SprintfV(pd.CarSpaces) >>

---------------------------------------------------------------------------
(* The GaugeVec: a map from label values to the gauge's value *)

NewGaugeVec == <<>>

\* GaugeVec.WithLabelValues: the gauge of these labels, created at 0 if new
WithLabelValues(vec, lvs) ==
    IF lvs \in DOMAIN vec THEN vec ELSE vec @@ (lvs :> 0)

\* Gauge.Set(1) in place of Gauge.Inc
IncSet(vec, lvs) == [vec EXCEPT ![lvs] = 1]

\* Gauge.Inc
Inc(vec, lvs) == [vec EXCEPT ![lvs] = @ + 1]

\* for _, l := range listings { listingCount.WithLabelValues(...).Inc() },
\* over ls[lo..hi] in order.  The range is halved, and the gauges after the
\* first half are evaluated (their DOMAIN is never empty) before the second
\* half starts, which keeps the evaluation shallow.
RECURSIVE RangeListings(_, _, _, _)
RangeListings(vec, ls, lo, hi) ==
    IF lo > hi THEN vec
    ELSE IF lo = hi
      THEN Inc(WithLabelValues(vec, LabelValues(ls[lo])), LabelValues(ls[lo]))
    ELSE LET mid  == (lo + hi) \div 2
             left == RangeListings(vec, ls, lo, mid)
         IN  IF DOMAIN left = {} THEN left
             ELSE RangeListings(left, ls, mid + 1, hi)

---------------------------------------------------------------------------
(* The upstream search API.  The fields of a request other than the page   *)
(* size and number (listingType, min*, Locations) select a result set; a   *)
(* request carries that result set's description in its query field:       *)
(*   total  - records the upstream holds for the search                    *)
(*   served - most records it puts in one page (Min'ed with the pageSize)  *)
(*   fails  - page numbers whose request fails (transport error, non-200   *)
(*            status or undecodable body)                                  *)
(*   strict - whether it answers "Cannot page beyond 1000 records" to a    *)
(*            request whose offset pageNumber * pageSize is past the cap   *)

Dataset(total, served, fails, strict) ==
    [total |-> total, served |-> served, fails |-> fails, strict |-> strict]

SmallData ==
    { Dataset(t, s, f, TRUE) : t \in 0..MaxTotal, s \in {2, PageSize}, f \in {{}, {0}, {1}} }

BigData ==
    { Dataset(400, PageSize, {}, TRUE), Dataset(1200, PageSize, {3}, TRUE) }
    \cup { Dataset(t, PageSize, {}, st) : t \in {999, 1000, 1200}, st \in BOOLEAN }
    \cup { Dataset(1200, 199, {}, st) : st \in BOOLEAN }

HandlerData == SmallData \cup BigData

BatchData ==
    { Dataset(0, PageSize, {}, TRUE), Dataset(MaxTotal, 2, {}, TRUE),
      Dataset(MaxTotal, 2, {1}, TRUE), Dataset(1, PageSize, {0}, TRUE),
      Dataset(1200, PageSize, {}, TRUE), Dataset(1000, PageSize, {}, FALSE) }

ZeroAnswers == { Dataset(2, PageSize, {}, TRUE), Dataset(0, PageSize, {0}, TRUE) }

\* the k-th record (k = 1, 2, ...) of any result set
RecordAt(k) == ((k - 1) % Len(Catalogue)) + 1

\* SearchResidentialPage: one POST of rsr; the decoded page, or an error
SearchResidentialPage(r) ==
    LET q   == r.query
        per == Min(q.served, r.PageSize)
        lo  == r.PageNumber * per
        hi  == Min(q.total, lo + per)
    IN  IF r.PageNumber \in q.fails
          THEN [err |-> TRUE, page |-> <<>>]
        ELSE IF q.strict /\ r.PageNumber * r.PageSize >= ResultCap
          THEN [err |-> TRUE, page |-> <<>>]
        ELSE IF hi <= lo
          THEN [err |-> FALSE, page |-> <<>>]
        ELSE [err |-> FALSE, page |-> [j \in 1..(hi - lo) |-> RecordAt(lo + j)]]

---------------------------------------------------------------------------
(* Criteria documents of batch mode (searches/*.json) *)

ZeroRsr == [query |-> zeroData, PageSize |-> 0, PageNumber |-> 0]

Criteria(d, ps, pn) == [query |-> d, PageSize |-> ps, PageNumber |-> pn]

BatchCriteria ==
    { Criteria(d, 0, 0) : d \in BatchData }
    \cup { Criteria(Dataset(MaxTotal, 2, {}, TRUE), 50, 3) }

Unopenable == [openable |-> FALSE, wellformed |-> FALSE, criteria |-> Criteria(Dataset(0, PageSize, {}, TRUE), 0, 0)]

Docs ==
    { Unopenable }
    \cup { [openable |-> TRUE, wellformed |-> w, criteria |-> c] :
              w \in {TRUE}, c \in BatchCriteria }
    \cup { [openable |-> TRUE, wellformed |-> FALSE, criteria |-> Criteria(Dataset(MaxTotal, 2, {}, TRUE), 0, 0)] }

RECURSIVE SeqsUpTo(_, _)
SeqsUpTo(S, n) ==
    IF n = 0 THEN { <<>> }
    ELSE LET shorter == SeqsUpTo(S, n - 1)
         IN  shorter \cup { Append(s, d) : s \in shorter, d \in S }

\* var rsr ResidentialSearchRequest; json.NewDecoder(f).Decode(&rsr), the
\* error of Decode dropped: a document that does not parse leaves rsr zero
Decode(doc) == IF doc.wellformed THEN doc.criteria ELSE ZeroRsr

---------------------------------------------------------------------------
(* Invocations.  The locals of an invocation (rsr, listings, listingCount) *)
(* live in the frame of that invocation.                                   *)

\* one frame for all invocations (package-level variables)
FrameShared(i) == 1

Frame(i) == i

Init ==
    /\ zeroData \in ZeroAnswers
    /\ pc = [i \in Inv |-> "idle"]
    /\ mode = [i \in Inv |-> "none"]
    /\ matches = [i \in Inv |-> <<>>]
    /\ m = [i \in Inv |-> 0]
    /\ callerRsr = [i \in Inv |-> ZeroRsr]
    /\ rsr = [i \in Inv |-> ZeroRsr]
    /\ listings = [i \in Inv |-> <<>>]
    /\ ret = [i \in Inv |-> [listings |-> <<>>, err |-> FALSE]]
    /\ reqs = [i \in Inv |-> <<>>]
    /\ listingCount = [i \in Inv |-> NewGaugeVec]
    /\ fed = [i \in Inv |-> <<>>]
    /\ emitted = [i \in Inv |-> NewGaugeVec]
    /\ status = [i \in Inv |-> 0]

\* the page number of the caller kept
ResetPagingSizeOnly(c) == [c EXCEPT !.PageSize = PageSize]

\* rsr.PageSize = 200; rsr.PageNumber = 0, on SearchResidential's own copy
ResetPaging(c) == [c EXCEPT !.PageSize = PageSize, !.PageNumber = 0]

\* listings = listingsPage
AppendPageOverwrite(ls, page) == page

\* listings = append(listings, listingsPage...)
AppendPage(ls, page) == ls \o page

\* rsr.PageNumber++
NextPage(r) == [r EXCEPT !.PageNumber = @ + 1]

\* return listings, err
OnErrorPartial(ls) == ls

\* the listings of "return nil, err"
OnError(ls) == <<>>

\* for len(listings) <= 1000
LoopCondInclusive(i, ls) == mode[i] = "handler" => Len(ls) <= ResultCap

\* the loop condition of SearchResidential: "for len(listings) < 1000" in
\* the handler's client, "for" in the collector's
LoopCond(i, ls) == mode[i] = "handler" => Len(ls) < ResultCap

\* SearchResidential up to its first page request
SearchResidentialEnter(i, c) ==
    /\ rsr' = [rsr EXCEPT ![Frame(i)] = ResetPaging(c)]
    /\ listings' = [listings EXCEPT ![Frame(i)] = <<>>]
    /\ reqs' = [reqs EXCEPT ![i] = <<>>]

\* domainHandler after SearchResidential returned (ls, err)
HandlerRest(i, ls, err) ==
    /\ IF err
         THEN /\ status' = [status EXCEPT ![i] = 500]
              /\ UNCHANGED <<listingCount, emitted>>
         ELSE LET vec == RangeListings(listingCount[Frame(i)], ls, 1, Len(ls))
              IN  /\ listingCount' = [listingCount EXCEPT ![Frame(i)] = vec]
                  /\ emitted' = [emitted EXCEPT ![i] = vec]
                  /\ status' = [status EXCEPT ![i] = 200]
    /\ pc' = [pc EXCEPT ![i] = "done"]
    /\ UNCHANGED m

\* Collect returning on a failed search in place of continuing
CollectRestAbort(i, ls, err) ==
    /\ IF err
         THEN /\ pc' = [pc EXCEPT ![i] = "done"]
              /\ UNCHANGED <<listingCount, m>>
         ELSE /\ listingCount' = [listingCount EXCEPT
                                    ![Frame(i)] = RangeListings(@, ls, 1, Len(ls))]
              /\ m' = [m EXCEPT ![i] = @ + 1]
              /\ pc' = [pc EXCEPT ![i] = "next"]
    /\ UNCHANGED <<emitted, status>>

\* Collect's loop body after SearchResidential returned (ls, err)
CollectRest(i, ls, err) ==
    /\ IF err
         THEN UNCHANGED listingCount
         ELSE listingCount' = [listingCount EXCEPT
                                 ![Frame(i)] = RangeListings(@, ls, 1, Len(ls))]
    /\ m' = [m EXCEPT ![i] = @ + 1]
    /\ pc' = [pc EXCEPT ![i] = "next"]
    /\ UNCHANGED <<emitted, status>>

\* return from SearchResidential into the caller
Return(i, ls, err) ==
    /\ ret' = [ret EXCEPT ![i] = [listings |-> ls, err |-> err]]
    /\ fed' = [fed EXCEPT ![i] = IF err THEN @ ELSE @ \o ls]
    /\ IF mode[i] = "handler" THEN HandlerRest(i, ls, err) ELSE CollectRest(i, ls, err)

LogRequest(i, resp) ==
    reqs' = [reqs EXCEPT ![i] = Append(@,
               [PageSize |-> rsr[Frame(i)].PageSize, PageNumber |-> rsr[Frame(i)].PageNumber,
                err |-> resp.err, n |-> Len(resp.page)])]

\* GET /listings: the handler up to the first page request
HandlerStart(i, d) ==
    /\ pc[i] = "idle"
    /\ mode' = [mode EXCEPT ![i] = "handler"]
    /\ listingCount' = [listingCount EXCEPT ![Frame(i)] = NewGaugeVec]
    /\ callerRsr' = [callerRsr EXCEPT ![i] = Criteria(d, 0, 0)]
    /\ SearchResidentialEnter(i, Criteria(d, 0, 0))
    /\ pc' = [pc EXCEPT ![i] = "page"]
    /\ UNCHANGED <<zeroData, matches, m, ret, fed, emitted, status>>

\* a scrape of /metrics: Collect up to its loop over the matches
CollectStart(i, docs) ==
    /\ pc[i] = "idle"
    /\ mode' = [mode EXCEPT ![i] = "collect"]
    /\ matches' = [matches EXCEPT ![i] = docs]
    /\ m' = [m EXCEPT ![i] = 1]
    /\ listingCount' = [listingCount EXCEPT ![Frame(i)] = NewGaugeVec]
    /\ pc' = [pc EXCEPT ![i] = "next"]
    /\ UNCHANGED <<zeroData, callerRsr, rsr, listings, ret, reqs, fed, emitted, status>>

\* os.Open(m) fails: continue
CollectSkip(i) ==
    /\ pc[i] = "next"
    /\ m[i] <= Len(matches[i])
    /\ ~matches[i][m[i]].openable
    /\ m' = [m EXCEPT ![i] = @ + 1]
    /\ UNCHANGED <<zeroData, pc, mode, matches, callerRsr, rsr, listings, ret, reqs,
                   listingCount, fed, emitted, status>>

\* the document opens: decode it and call SearchResidential
CollectSearch(i) ==
    /\ pc[i] = "next"
    /\ m[i] <= Len(matches[i])
    /\ matches[i][m[i]].openable
    /\ callerRsr' = [callerRsr EXCEPT ![i] = Decode(matches[i][m[i]])]
    /\ SearchResidentialEnter(i, Decode(matches[i][m[i]]))
    /\ pc' = [pc EXCEPT ![i] = "page"]
    /\ UNCHANGED <<zeroData, mode, matches, m, ret, listingCount, fed, emitted, status>>

\* the matches are exhausted: listingCount.Collect(ch)
CollectEmit(i) ==
    /\ pc[i] = "next"
    /\ m[i] > Len(matches[i])
    /\ emitted' = [emitted EXCEPT ![i] = listingCount[Frame(i)]]
    /\ status' = [status EXCEPT ![i] = 200]
    /\ pc' = [pc EXCEPT ![i] = "done"]
    /\ UNCHANGED <<zeroData, mode, matches, m, callerRsr, rsr, listings, ret, reqs,
                   listingCount, fed>>

\* a loop iteration whose page request fails: return nil, err
PageFails(i) ==
    /\ pc[i] = "page"
    /\ LET resp == SearchResidentialPage(rsr[Frame(i)])
       IN  /\ resp.err
           /\ LogRequest(i, resp)
           /\ Return(i, OnError(listings[Frame(i)]), TRUE)
    /\ UNCHANGED <<zeroData, mode, matches, callerRsr, rsr, listings>>

\* a loop iteration whose page is empty: break, return listings, nil
PageEmpty(i) ==
    /\ pc[i] = "page"
    /\ LET resp == SearchResidentialPage(rsr[Frame(i)])
       IN  /\ ~resp.err
           /\ Len(resp.page) = 0
           /\ LogRequest(i, resp)
           /\ Return(i, listings[Frame(i)], FALSE)
    /\ UNCHANGED <<zeroData, mode, matches, callerRsr, rsr, listings>>

\* a loop iteration whose page has records: append, PageNumber++, and the
\* loop condition again; when it fails, return listings, nil
PageAppend(i) ==
    /\ pc[i] = "page"
    /\ LET resp == SearchResidentialPage(rsr[Frame(i)])
           ls   == AppendPage(listings[Frame(i)], resp.page)
       IN  /\ ~resp.err
           /\ Len(resp.page) # 0
           /\ LogRequest(i, resp)
           /\ listings' = [listings EXCEPT ![Frame(i)] = ls]
           /\ rsr' = [rsr EXCEPT ![Frame(i)] = NextPage(@)]
           /\ IF LoopCond(i, ls)
                THEN UNCHANGED <<pc, m, ret, fed, listingCount, emitted, status>>
                ELSE Return(i, ls, FALSE)
    /\ UNCHANGED <<zeroData, mode, matches, callerRsr>>

Step(i) ==
    \/ CollectSkip(i)
    \/ CollectSearch(i)
    \/ CollectEmit(i)
    \/ PageFails(i)
    \/ PageEmpty(i)
    \/ PageAppend(i)

\* one invocation at a time, over every enumerated search and document set
Next ==
    \/ \E d \in HandlerData : HandlerStart(1, d)
    \/ \E docs \in SeqsUpTo(Docs, MaxDocs) : CollectStart(1, docs)
    \/ Step(1)

Spec == Init /\ [][Next]_vars

---------------------------------------------------------------------------
(* Concurrent invocations: NumInv requests served at once, in any          *)
(* interleaving of their page requests, over a few small searches.         *)

ConcData ==
    { Dataset(MaxTotal, 2, {}, TRUE), Dataset(1, PageSize, {}, TRUE),
      Dataset(2, 2, {1}, TRUE) }

ConcMatches ==
    { <<>>, <<Unopenable>>,
      <<[openable |-> TRUE, wellformed |-> TRUE,
         criteria |-> Criteria(Dataset(MaxTotal, 2, {}, TRUE), 50, 3)]>> }

InitConc == Init /\ zeroData = Dataset(2, PageSize, {}, TRUE)

NextConc ==
    \E i \in Inv :
        \/ \E d \in ConcData : HandlerStart(i, d)
        \/ \E docs \in ConcMatches : CollectStart(i, docs)
        \/ Step(i)

SpecConc == InitConc /\ [][NextConc]_vars

---------------------------------------------------------------------------
(* Long searches: an upstream that puts one record in a page, holds more   *)
(* records than the cap and serves every page asked for, so that neither   *)
(* an empty page nor an error ends the paging within the first ResultCap   *)
(* requests.  Every page request returns: the steps of a running           *)
(* invocation are weakly fair.                                             *)

LongData == Dataset(ResultCap + 1, 1, {}, FALSE)

LongHandlerData == { LongData, Dataset(1, PageSize, {0}, TRUE) }

LongMatches ==
    { <<>>,
      <<Unopenable,
        [openable |-> TRUE, wellformed |-> TRUE, criteria |-> Criteria(LongData, 0, 0)]>>,
      <<[openable |-> TRUE, wellformed |-> TRUE,
         criteria |-> Criteria(Dataset(1, PageSize, {0}, TRUE), 0, 0)]>> }

InitLong == Init /\ zeroData = Dataset(2, PageSize, {}, TRUE)

NextLong ==
    \/ \E d \in LongHandlerData : HandlerStart(1, d)
    \/ \E docs \in LongMatches : CollectStart(1, docs)
    \/ Step(1)

SpecLong == InitLong /\ [][NextLong]_vars /\ WF_vars(Step(1))

---------------------------------------------------------------------------
(* SearchResidential and the drivers as functions of their input: what an  *)
(* invocation computes when nothing else runs.                             *)

\* the loop of SearchResidential from the request r and the accumulator ls
RECURSIVE SearchLoop(_, _, _)
SearchLoop(capped, r, ls) ==
    IF capped /\ ~(Len(ls) < ResultCap) THEN [listings |-> ls, err |-> FALSE]
    ELSE LET resp == SearchResidentialPage(r)
         IN  IF resp.err THEN [listings |-> <<>>, err |-> TRUE]
             ELSE IF Len(resp.page) = 0 THEN [listings |-> ls, err |-> FALSE]
             ELSE SearchLoop(capped, NextPage(r), AppendPage(ls, resp.page))

SearchResidential(capped, c) == SearchLoop(capped, ResetPaging(c), <<>>)

\* the gauges of domainHandler for the criteria c (no metrics on an error)
HandlerGauges(c) ==
    LET res == SearchResidential(TRUE, c)
    IN  IF res.err THEN NewGaugeVec
        ELSE RangeListings(NewGaugeVec, res.listings, 1, Len(res.listings))

\* the gauges of Collect after the documents docs[k..]
RECURSIVE CollectGauges(_, _, _)
CollectGauges(vec, docs, k) ==
    IF k > Len(docs) THEN vec
    ELSE IF ~docs[k].openable THEN CollectGauges(vec, docs, k + 1)
    ELSE LET res == SearchResidential(FALSE, Decode(docs[k]))
         IN  IF res.err THEN CollectGauges(vec, docs, k + 1)
             ELSE CollectGauges(RangeListings(vec, res.listings, 1, Len(res.listings)),
                                docs, k + 1)


---------------------------------------------------------------------------
(* Properties *)

\* the SearchResidential call logged in reqs[i] has returned
CallDone(i) == pc[i] \in {"next", "done"} /\ reqs[i] # <<>>

\* the loop of the call of invocation i is the capped one
Capped(i) == mode[i] = "handler"

NoRequestFailed(i) == \A k \in DOMAIN reqs[i] : ~reqs[i][k].err

\* the records the upstream holds for the call's search, and its page size
Total(i) == callerRsr[i].query.total
Served(i) == Min(callerRsr[i].query.served, PageSize)

Ceil(a, b) == (a + b - 1) \div b

\* the first n records of a result set, in upstream order
Upstream(n) == [j \in 1..n |-> RecordAt(j)]

\* C1 (as claimed): a call over N <= resultCap records in pages of size P
\* issues ceil(N/P) page requests, plus one if N is a nonzero multiple of P
C1_RequestCountClaimed ==
    \A i \in Inv :
        (CallDone(i) /\ NoRequestFailed(i) /\ Total(i) <= ResultCap)
        => Len(reqs[i]) = Ceil(Total(i), Served(i))
                          + (IF Total(i) > 0 /\ Total(i) % Served(i) = 0 THEN 1 ELSE 0)

\* C1 (amended): a call over N <= resultCap records in pages of size P, all
\* of whose page requests succeed, issues ceil(N/P) + 1 page requests (one
\* per non-empty page and one for the terminating empty page, whether or not
\* N is a multiple of P), except that the capped loop with N = resultCap
\* stops on the cap after ceil(N/P) requests; 3 records in one page of 200
\* take two requests
C1_RequestCount ==
    \A i \in Inv :
        (CallDone(i) /\ NoRequestFailed(i) /\ Total(i) <= ResultCap)
        => /\ Len(reqs[i]) = Ceil(Total(i), Served(i))
                             + (IF Capped(i) /\ Total(i) = ResultCap THEN 0 ELSE 1)
           /\ (Total(i) = 3 /\ Served(i) = PageSize) => Len(reqs[i]) = 2

C1_Witness ==
    \E i \in Inv :
        /\ CallDone(i) /\ NoRequestFailed(i)
        /\ Total(i) = 3 /\ Served(i) = PageSize
        /\ Len(reqs[i]) = 2 /\ reqs[i][1].n = 3 /\ reqs[i][2].n = 0

\* C2 (as claimed): over a search with more than resultCap records, the
\* capped SearchResidential issues no page request at an offset the upstream
\* refuses ("Cannot page beyond 1000 records"), never holds more than
\* resultCap records, and returns without error unless a request failed for
\* another reason
C2_StopsBeforeCap ==
    \A i \in Inv :
        (Capped(i) /\ Total(i) > ResultCap /\ callerRsr[i].query.fails = {})
        => /\ \A k \in DOMAIN reqs[i] :
                 reqs[i][k].PageNumber * reqs[i][k].PageSize < ResultCap
           /\ Len(listings[Frame(i)]) <= ResultCap
           /\ CallDone(i) => ~ret[i].err

\* C3: a call over N <= resultCap records whose page requests all succeed
\* returns, without error, exactly the N records in upstream order; two
\* pages of 200 and an empty page give 400 records after 3 requests
C3_ReturnsAllInOrder ==
    \A i \in Inv :
        (CallDone(i) /\ NoRequestFailed(i) /\ Total(i) <= ResultCap)
        => /\ ~ret[i].err
           /\ ret[i].listings = Upstream(Total(i))
           /\ (Total(i) = 400 /\ Served(i) = PageSize)
                 => (Len(reqs[i]) = 3 /\ Len(ret[i].listings) = 400)

C3_Witness ==
    \E i \in Inv :
        /\ CallDone(i) /\ NoRequestFailed(i)
        /\ Total(i) = 400 /\ Len(reqs[i]) = 3
        /\ reqs[i][1].n = 200 /\ reqs[i][2].n = 200 /\ reqs[i][3].n = 0
        /\ Len(ret[i].listings) = 400

\* C4: a failed page request is the last request of its call; the call has
\* returned the error and no records, and the handler answers 500 with no
\* metric
C4_FailureAborts ==
    \A i \in Inv : \A k \in DOMAIN reqs[i] :
        reqs[i][k].err
        => /\ k = Len(reqs[i])
           /\ CallDone(i)
           /\ ret[i].err
           /\ ret[i].listings = <<>>
           /\ mode[i] = "handler" => (status[i] = 500 /\ emitted[i] = NewGaugeVec)

C4_Witness ==
    \E i \in Inv :
        /\ Len(reqs[i]) = 2
        /\ reqs[i][1].n > 0 /\ ~reqs[i][1].err
        /\ reqs[i][2].err
        /\ ret[i].err /\ ret[i].listings = <<>>

RECURSIVE SumOver(_, _)
SumOver(vec, keys) ==
    IF keys = {} THEN 0
    ELSE LET k == CHOOSE x \in keys : TRUE
         IN  vec[k] + SumOver(vec, keys \ {k})

\* the total of the gauges of a vector
SumCounts(vec) == SumOver(vec, DOMAIN vec)

\* C5: the gauges of an invocation always total the number of records its
\* successful SearchResidential calls returned, every gauge counts at least
\* one record, and so do the gauges it emits; no records, no gauges
C5_TotalEqualsFetched ==
    \A i \in Inv :
        /\ pc[i] \in {"next", "done"}
             => /\ SumCounts(listingCount[Frame(i)]) = Len(fed[i])
                /\ \A k \in DOMAIN listingCount[Frame(i)] : listingCount[Frame(i)][k] >= 1
        /\ status[i] = 200
             => /\ SumCounts(emitted[i]) = Len(fed[i])
                /\ fed[i] = <<>> => emitted[i] = NewGaugeVec

C5_Witness ==
    \E i \in Inv :
        /\ status[i] = 200
        /\ Len(fed[i]) >= 3
        /\ \E k \in DOMAIN emitted[i] : emitted[i][k] >= 2
        /\ SumCounts(emitted[i]) = Len(fed[i])

\* the document at position k of a scrape makes SearchResidential fail
FetchFails(doc) == doc.openable /\ SearchResidential(FALSE, Decode(doc)).err

\* C6: a finished scrape has gone through all its documents and emits the
\* gauges of exactly the documents whose SearchResidential call succeeded,
\* wherever the failing ones stand
C6_FailedSetSkipped ==
    \A i \in Inv :
        (mode[i] = "collect" /\ pc[i] = "done")
        => /\ status[i] = 200
           /\ m[i] = Len(matches[i]) + 1
           /\ emitted[i] = CollectGauges(NewGaugeVec, matches[i], 1)

C6_Witness ==
    \E i \in Inv :
        /\ mode[i] = "collect" /\ pc[i] = "done"
        /\ Len(matches[i]) = 2
        /\ FetchFails(matches[i][1])
        /\ matches[i][2].openable /\ ~FetchFails(matches[i][2])
        /\ emitted[i] # NewGaugeVec
        /\ emitted[i] = CollectGauges(NewGaugeVec, matches[i], 1)

\* C7 (as claimed): no page request is issued for a document that cannot be
\* read or parsed
C7_MalformedSkipped ==
    \A i \in Inv :
        (mode[i] = "collect" /\ pc[i] = "page")
        => (matches[i][m[i]].openable /\ matches[i][m[i]].wellformed) \/ reqs[i] = <<>>

\* what invocation i computes when it runs alone
AloneGauges(i) ==
    IF mode[i] = "handler" THEN HandlerGauges(callerRsr[i])
    ELSE CollectGauges(NewGaugeVec, matches[i], 1)

RECURSIVE SumN(_, _)
SumN(log, k) == IF k = 0 THEN 0 ELSE log[k].n + SumN(log, k - 1)

\* C8: under any interleaving, an invocation emits the gauges it computes
\* when run alone, answers 500 only when its own search fails, and while it
\* pages its request and accumulator hold its own page number and pages
C8_Isolation ==
    \A i \in Inv :
        /\ status[i] = 200 => emitted[i] = AloneGauges(i)
        /\ status[i] = 500
             => (mode[i] = "handler" /\ SearchResidential(TRUE, callerRsr[i]).err)
        /\ pc[i] = "page"
             => /\ rsr[Frame(i)].PageNumber = Len(reqs[i])
                /\ rsr[Frame(i)].query = callerRsr[i].query
                /\ Len(listings[Frame(i)]) = SumN(reqs[i], Len(reqs[i]))
                /\ listings[Frame(i)] = Upstream(Len(listings[Frame(i)]))

C8_Witness ==
    \E i, j \in Inv :
        /\ i # j
        /\ status[i] = 200 /\ Len(reqs[i]) >= 2 /\ emitted[i] # NewGaugeVec
        /\ pc[j] = "page" /\ Len(reqs[j]) >= 1 /\ listings[Frame(j)] # <<>>
        /\ callerRsr[i].query # callerRsr[j].query

Digits == {"0", "1", "2", "3", "4", "5", "6", "7", "8", "9"}

RECURSIVE Atoi(_, _)
\* the number written by the first k characters of the digit string s
Atoi(s, k) == IF k = 0 THEN 0
              ELSE 10 * Atoi(s, k - 1) + (CHOOSE d \in 0..9 : DigitChar(d) = s[k])

\* s is digits, a point and one digit, and is n/Denom to the nearest tenth
OneDecimal(s, n) ==
    /\ Len(s) >= 3
    /\ s[Len(s) - 1] = "."
    /\ \A k \in (1..Len(s)) \ {Len(s) - 1} : s[k] \in Digits
    /\ LET t == 10 * Atoi(s, Len(s) - 2) + Atoi(<<s[Len(s)]>>, 1)
           d == 10 * n - t * Denom
       IN  2 * (IF d < 0 THEN -d ELSE d) <= Denom

\* s is the plain decimal writing of the integer c
PlainInt(s, c) ==
    LET neg  == s # <<>> /\ s[1] = "-"
        body == IF neg THEN Tail(s) ELSE s
    IN  /\ body # <<>>
        /\ \A k \in 1..Len(body) : body[k] \in Digits
        /\ (Len(body) > 1 => body[1] # "0")
        /\ neg = (c < 0)
        /\ Atoi(body, Len(body)) = (IF c < 0 THEN -c ELSE c)

\* the label values lvs are those of the record r
IsKeyOf(lvs, r) ==
    LET pd == PropertyDetails(r)
    IN  /\ lvs[1] = pd.PropertyType /\ lvs[2] = pd.Suburb /\ lvs[3] = pd.Postcode
        /\ OneDecimal(lvs[4], pd.Bedrooms)
        /\ OneDecimal(lvs[5], pd.Bathrooms)
        /\ PlainInt(lvs[6], pd.CarSpaces)

\* how many times the record r occurs in ls
Occurrences(ls, r) == Cardinality({ j \in DOMAIN ls : ls[j] = r })

RECURSIVE SumOcc(_, _)
SumOcc(ls, rs) ==
    IF rs = {} THEN 0
    ELSE LET r == CHOOSE x \in rs : TRUE
         IN  Occurrences(ls, r) + SumOcc(ls, rs \ {r})

\* C9: the emitted gauges are keyed by propertyType, suburb and postcode as
\* they are, bedrooms and bathrooms with one decimal and car spaces as a plain
\* integer; each gauge counts the records with those six label values; 3.0
\* bedrooms, 2.5 bathrooms and 1 car space give "3.0", "2.5" and "1"
C9_LabelFormat ==
    \A i \in Inv :
        status[i] = 200
        => /\ \A j \in DOMAIN Catalogue :
                Occurrences(fed[i], j) > 0
                => \E lvs \in DOMAIN emitted[i] : IsKeyOf(lvs, j)
           /\ \A lvs \in DOMAIN emitted[i] :
                emitted[i][lvs]
                  = SumOcc(fed[i], { j \in DOMAIN Catalogue : IsKeyOf(lvs, j) })
           /\ \A j \in DOMAIN Catalogue :
                (/\ Occurrences(fed[i], j) > 0
                 /\ Catalogue[j].Bedrooms = 3 * Denom
                 /\ 2 * Catalogue[j].Bathrooms = 5 * Denom
                 /\ Catalogue[j].CarSpaces = 1)
                => << Catalogue[j].PropertyType, Catalogue[j].Suburb, Catalogue[j].Postcode,
                      <<"3", ".", "0">>, <<"2", ".", "5">>, <<"1">> >> \in DOMAIN emitted[i]

C9_Witness ==
    \E i \in Inv :
        /\ status[i] = 200
        /\ Len(fed[i]) >= Len(Catalogue)
        /\ << "House", "Pyrmont", "2009", <<"3", ".", "0">>, <<"2", ".", "5">>, <<"1">> >>
              \in DOMAIN emitted[i]
        /\ emitted[i][<< "House", "Pyrmont", "2009",
                         <<"3", ".", "0">>, <<"2", ".", "5">>, <<"1">> >>]
              >= 3

\* C10: the k-th page request of a call carries pageSize 200 and pageNumber
\* k-1 whatever the caller's criteria carried, and the caller's criteria are
\* as the caller built them during and after the call
C10_ConsecutivePages ==
    \A i \in Inv :
        /\ \A k \in DOMAIN reqs[i] :
              reqs[i][k].PageSize = PageSize /\ reqs[i][k].PageNumber = k - 1
        /\ (mode[i] = "handler" /\ pc[i] \in {"page", "done"})
              => (callerRsr[i].PageSize = 0 /\ callerRsr[i].PageNumber = 0)
        /\ (mode[i] = "collect" /\ pc[i] = "page")
              => callerRsr[i] = Decode(matches[i][m[i]])
        /\ (mode[i] = "collect" /\ CallDone(i))
              => \E k \in 1..(m[i] - 1) : callerRsr[i] = Decode(matches[i][k])

C10_Witness ==
    \E i \in Inv :
        /\ CallDone(i)
        /\ callerRsr[i].PageSize = 50 /\ callerRsr[i].PageNumber = 3
        /\ Len(reqs[i]) = 3
        /\ reqs[i][1].PageNumber = 0 /\ reqs[i][3].PageNumber = 2
        /\ reqs[i][1].PageSize = PageSize

\* C11 (as claimed): a SearchResidential call issues at most resultCap page
\* requests
C11_AtMostCapRequests ==
    \A i \in Inv : Len(reqs[i]) <= ResultCap

\* C11, for the capped loop of the handler alone: while it pages, every
\* request so far brought at least one record and fewer than resultCap
\* records are held, so at most resultCap page requests are issued
C11_CappedBounded ==
    \A i \in Inv :
        Capped(i)
        => /\ Len(reqs[i]) <= ResultCap
           /\ pc[i] = "page"
                => /\ Len(reqs[i]) <= Len(listings[Frame(i)])
                   /\ Len(listings[Frame(i)]) < ResultCap

\* the handler over the long search has returned on the cap
C11_CappedWitness ==
    \E i \in Inv :
        /\ Capped(i) /\ pc[i] = "done" /\ status[i] = 200
        /\ callerRsr[i].query = LongData
        /\ Len(reqs[i]) = ResultCap
        /\ Len(ret[i].listings) = ResultCap

====
